---- MODULE Spec2Model ----
(***************************************************************************)
(* A model of the rnp probing engine: the port picker shared by N ping     *)
(* workers, the worker loop (acquire port, ping, emit result, wait), the   *)
(* TCP ping client, the result channel and the stop event.                 *)
(***************************************************************************)
EXTENDS Integers, Sequences, FiniteSets, TLC

(* ------------------------------ bounds --------------------------------- *)
NumWorkers == 2
MaxPort == 2
MaxWarmup == 1
MaxTotal == 2
ChanCap == 2
MaxConns == 2
MaxBytes == 1
NumProcessors == 2
MaxSeparators == 2
MaxProcessCalls == 3

\* cap on the pairs handed out when the budget is absent (unbounded run)
MaxIssued == MaxTotal + 1

Workers == 1..NumWorkers
Ports == 1..MaxPort
ConnIds == 0..(MaxConns - 1)
Processors == 1..NumProcessors

(* ------------------------------ state ---------------------------------- *)
VARIABLES
    cfg,          \* run configuration: port range, warmup, budget, check_disconnect
    port_picker,  \* Arc<Mutex<PingPortPicker>>
    stop_event,   \* Arc<ManualResetEvent>
    pc,           \* position of each worker task
    cur,          \* (source_port, is_warmup) a worker got from the picker
    res,          \* outcome of the ping client for the probe in flight
    peer,         \* what the connected peer does during the disconnect drain
    drained,      \* chunks the drain loop of the probe in flight has read, modulo 2
    chan,         \* result channel (bounded mpsc queue)
    issued,       \* history: pairs received by the workers, in lock order (cur[w].idx: position)
    sent,         \* history: number of results sent to the channel
    dropped,      \* history: probes dropped by the worker
    after_stop,   \* history: pairs a worker acquired while stop_event was set
    srv_pc,       \* position of the StubServerTcp::run task
    server_started_event,
    next_conn_id,
    conn_stats_map,   \* ids of the connections whose stats are in the map
    conn_stats,   \* Arc<Mutex<StubServerTcpConnectionStats>> of each connection
    conn_pc,      \* position of each spawned connection task
    result_sender,    \* the scheduler still holds its sender end of the result channel
    chain_pc,     \* position of the task that feeds the processor chain
    chain_cur,    \* the result received and being passed along the chain
    chain_i,      \* the processor the chain calls next
    chain_log,    \* history: the results each processor got through process()
    chain_done,   \* history: the done() calls each processor got
    tcp,          \* one PingClientTcp::ping_target call followed statement by statement
    logger,       \* a PingResultProcessorLatencyBucketLogger
    logger_calls, \* history: the results handed to the logger's process()
    fmt,          \* a PingResult and the texts its formatters returned for it
    stdout        \* the lines the logger's done() has printed

srvVars == <<srv_pc, server_started_event, next_conn_id, conn_stats_map, conn_stats, conn_pc>>

pipeVars == <<result_sender, chain_pc, chain_cur, chain_i, chain_log, chain_done>>

unitVars == <<tcp, logger, logger_calls, fmt, stdout>>

vars == <<cfg, port_picker, stop_event, pc, cur, res, peer, drained, chan,
          issued, sent, dropped, after_stop, srvVars, pipeVars, unitVars>>

workerVars == <<cfg, port_picker, pc, cur, res, peer, drained, chan,
                issued, sent, dropped, after_stop>>

(* --------------------------- port picker ------------------------------- *)
\* the budgets a run can be configured with: bounded 0..MaxTotal, or absent
Budgets == [bounded : {TRUE}, total : 0..MaxTotal] \cup [bounded : {FALSE}, total : {0}]

Configs == { c \in [min_port : Ports, max_port : Ports, warmup : 0..MaxWarmup,
                    budget : Budgets, check_disconnect : BOOLEAN] :
                c.min_port <= c.max_port }

PingPortPicker(c) ==
    [min_port |-> c.min_port, max_port |-> c.max_port, next_port |-> c.min_port,
     remaining_warmup |-> c.warmup,
     bounded |-> c.budget.bounded, remaining_total |-> c.budget.total]

NonePair == [some |-> FALSE, port |-> 0, is_warmup |-> FALSE]

\* PingPortPicker::next: the returned Option and the picker afterwards
PickerNext(p) ==
    IF p.bounded /\ p.remaining_total = 0
    THEN [ret |-> NonePair, picker |-> p]
    ELSE [ret |-> [some |-> TRUE, port |-> p.next_port, is_warmup |-> p.remaining_warmup > 0],
          picker |-> [p EXCEPT
                        !.next_port = IF @ >= p.max_port THEN p.min_port ELSE @ + 1,
                        !.remaining_warmup = IF @ > 0 THEN @ - 1 ELSE 0,
                        !.remaining_total = IF p.bounded THEN @ - 1 ELSE @]]

(* --------------------------- ping client ------------------------------- *)
\* PingClientPingResultDetails and the error of a ping: the stage that failed and
\* the error kind, is_timed_out, the disconnect warning, and whether
\* actual_local_addr is Some
NoResult ==
    [stage |-> "none", kind |-> "None", is_timed_out |-> FALSE, warning |-> FALSE,
     actual_local_addr |-> FALSE]

\* socket create / bind / set option failures of prepare_socket_for_ping
PrepareErrorKinds == {"AddrInUse", "AddrNotAvailable"}
\* errors of connect_timeout other than TimedOut
ConnectErrorKinds == {"ConnectionRefused", "AddrInUse"}

PreparationFailed(k) ==
    [stage |-> "prepare", kind |-> k, is_timed_out |-> FALSE, warning |-> FALSE,
     actual_local_addr |-> FALSE]
PingFailed(k) ==
    [stage |-> "connect", kind |-> k, is_timed_out |-> FALSE, warning |-> FALSE,
     actual_local_addr |-> FALSE]
\* the timeout is returned as a PingFailed error that is also flagged as timed out
PingTimedOut_as_error ==
    [stage |-> "connect", kind |-> "TimedOut", is_timed_out |-> TRUE, warning |-> FALSE,
     actual_local_addr |-> FALSE]

PingTimedOut ==
    [stage |-> "ok", kind |-> "None", is_timed_out |-> TRUE, warning |-> FALSE,
     actual_local_addr |-> FALSE]
PingOk(warn) ==
    [stage |-> "ok", kind |-> "None", is_timed_out |-> FALSE, warning |-> warn,
     actual_local_addr |-> FALSE]
\* the final returns of ping_target: Some(addr) when local_addr() was Ok
PingOkFrom(warn, addr) == [PingOk(warn) EXCEPT !.actual_local_addr = addr]

\* tcp while no call is followed
IdleCall ==
    [pc |-> "idle", is_ipv4 |-> TRUE, check_disconnect |-> FALSE, time_to_live |-> FALSE,
     calls |-> <<>>, ret |-> NoResult, actual_local_addr |-> FALSE]

\* logger before PingResultProcessorLatencyBucketLogger::new
NoLogger ==
    [created |-> FALSE, panicked |-> FALSE, buckets_in_us |-> <<>>, total_hit_count |-> 0,
     bucket_hit_counts |-> <<>>, timed_out_hit_count |-> 0, failed_hit_count |-> 0]

(* ------------------------------- Init ---------------------------------- *)
\* StubServerTcpConnectionStats::new
StubServerTcpConnectionStats == [is_alive |-> TRUE, bytes_read |-> 0, bytes_write |-> 0]

\* StubServerTcp::new; the server task is spawned by run_new only in server mode
StubServerTcp(spawned) ==
    /\ srv_pc = IF spawned THEN "bind" ELSE "unspawned"
    /\ server_started_event = FALSE
    /\ next_conn_id = 0
    /\ conn_stats_map = {}
    /\ conn_stats = [c \in ConnIds |-> StubServerTcpConnectionStats]
    /\ conn_pc = [c \in ConnIds |-> "none"]

\* the workers as PingWorker::run spawns them, for the run configuration c
PingWorkers(c, spawned) ==
    /\ cfg = c
    /\ port_picker = PingPortPicker(c)
    /\ pc = [w \in Workers |-> IF spawned THEN "acquire" ELSE "unspawned"]
    /\ cur = [w \in Workers |-> [port |-> 0, is_warmup |-> FALSE, idx |-> 0]]
    /\ res = [w \in Workers |-> NoResult]
    /\ peer = [w \in Workers |-> "none"]
    /\ drained = [w \in Workers |-> 0]
    /\ chan = <<>>
    /\ issued = <<>>
    /\ sent = 0
    /\ dropped = 0
    /\ after_stop = [w \in Workers |-> 0]

\* the value of chain_cur while no result is being passed along the chain
NoPingResult ==
    [ping_time |-> 0, worker_id |-> 0, port |-> 0, is_warmup |-> FALSE,
     is_timed_out |-> FALSE, stage |-> "none", kind |-> "None",
     source |-> [ip |-> "source_ip", port |-> 0]]

\* the scheduler's sender end and the task feeding the processor chain; without
\* that task the results are taken off the channel by ReceiveResult
ProcessorChain(spawned) ==
    /\ result_sender = spawned
    /\ chain_pc = IF spawned THEN "recv" ELSE "unspawned"
    /\ chain_cur = NoPingResult
    /\ chain_i = 1
    /\ chain_log = [p \in Processors |-> <<>>]
    /\ chain_done = [p \in Processors |-> 0]

\* Option<PingClientError>: None, PreparationFailed(e) or PingFailed(e), with the
\* text of the boxed error e
NoError == [variant |-> "None", msg |-> ""]
ErrPreparationFailed(msg) == [variant |-> "PreparationFailed", msg |-> msg]
ErrPingFailed(msg) == [variant |-> "PingFailed", msg |-> msg]

\* a PingResult as the tests of ping_result.rs build it: fixed time, worker,
\* protocol, target and source; round_trip_time in tenths of a microsecond
SamplePingResult(is_warmup, round_trip_time, is_timed_out, error) ==
    [ping_time |-> "2021-07-06T09:10:11.012Z", worker_id |-> 1, protocol |-> "TCP",
     target_ip |-> "1.2.3.4", target_port |-> 443,
     source_ip |-> "5.6.7.8", source_port |-> 8080,
     is_warmup |-> is_warmup, round_trip_time |-> round_trip_time,
     is_timed_out |-> is_timed_out, error |-> error]

\* no formatter has returned yet for the result r
Unformatted(r) == [result |-> r, console |-> <<>>, json |-> <<>>, csv |-> <<>>]

\* no ping_target call is followed, no latency bucket logger exists and no
\* result is being formatted
NoUnits ==
    /\ tcp = IdleCall
    /\ logger = NoLogger
    /\ logger_calls = <<>>
    /\ fmt = Unformatted(SamplePingResult(FALSE, 0, FALSE, NoError))
    /\ stdout = <<>>

Init ==
    /\ \E c \in Configs : PingWorkers(c, TRUE)
    /\ stop_event = FALSE
    /\ StubServerTcp(FALSE)
    /\ ProcessorChain(FALSE)
    /\ NoUnits

(* ------------------------------ worker --------------------------------- *)
\* the warmup flag of the pair is not passed on to run_single_ping
Acquired_drops_warmup(w, pair) ==
    /\ pc' = [pc EXCEPT ![w] = "ping"]
    /\ cur' = [cur EXCEPT ![w] = [port |-> pair.port, is_warmup |-> FALSE,
                                  idx |-> Len(issued) + 1]]
    /\ issued' = Append(issued, [port |-> pair.port, is_warmup |-> FALSE])
    /\ after_stop' = [after_stop EXCEPT ![w] = IF stop_event THEN @ + 1 ELSE @]

\* the Some arm of the match: run_single_ping starts with the pair
Acquired(w, pair) ==
    /\ pc' = [pc EXCEPT ![w] = "ping"]
    /\ cur' = [cur EXCEPT ![w] = [port |-> pair.port, is_warmup |-> pair.is_warmup,
                                  idx |-> Len(issued) + 1]]
    /\ issued' = Append(issued, [port |-> pair.port, is_warmup |-> pair.is_warmup])
    /\ after_stop' = [after_stop EXCEPT ![w] = IF stop_event THEN @ + 1 ELSE @]

\* the worker takes the lock but advances a copy of the picker, not the shared one
run_worker_loop_on_copy(w) ==
    /\ pc[w] = "acquire"
    /\ LET r == PickerNext(port_picker) IN
        /\ port_picker' = port_picker
        /\ IF r.ret.some
           THEN Acquired(w, r.ret)
           ELSE /\ pc' = [pc EXCEPT ![w] = "exited"]
                /\ UNCHANGED <<cur, issued, after_stop>>
    /\ UNCHANGED <<srvVars, pipeVars, unitVars, cfg, drained, stop_event, res, peer, chan, sent, dropped>>

\* the worker does not return on None but probes from the cursor's port
run_worker_loop_ignores_none(w) ==
    /\ pc[w] = "acquire"
    /\ LET r == PickerNext(port_picker) IN
        /\ port_picker' = r.picker
        /\ IF r.ret.some
           THEN Acquired(w, r.ret)
           ELSE /\ Len(issued) < MaxIssued
                /\ Acquired(w, [some |-> TRUE, port |-> port_picker.next_port, is_warmup |-> FALSE])
    /\ UNCHANGED <<srvVars, pipeVars, unitVars, cfg, drained, stop_event, res, peer, chan, sent, dropped>>

\* the worker calls next() a second time and probes with the second pair
run_worker_loop_double_next(w) ==
    /\ pc[w] = "acquire"
    /\ LET r == PickerNext(PickerNext(port_picker).picker) IN
        /\ port_picker' = r.picker
        /\ IF r.ret.some
           THEN Acquired(w, r.ret)
           ELSE /\ pc' = [pc EXCEPT ![w] = "exited"]
                /\ UNCHANGED <<cur, issued, after_stop>>
    /\ UNCHANGED <<srvVars, pipeVars, unitVars, cfg, drained, stop_event, res, peer, chan, sent, dropped>>

\* run_worker_loop, the head of the loop: port_picker.lock().next() and the match
run_worker_loop(w) ==
    /\ pc[w] = "acquire"
    /\ LET r == PickerNext(port_picker) IN
        /\ port_picker' = r.picker
        /\ IF r.ret.some
           THEN Acquired(w, r.ret)
           ELSE /\ pc' = [pc EXCEPT ![w] = "exited"]
                /\ UNCHANGED <<cur, issued, after_stop>>
    /\ UNCHANGED <<srvVars, pipeVars, unitVars, cfg, drained, stop_event, res, peer, chan, sent, dropped>>

\* ping_target: prepare_socket_for_ping, connect_timeout and, with
\* check_disconnect, the shutdown(Write) that opens shutdown_connection
ping_target(w) ==
    /\ pc[w] = "ping"
    /\ \/ \E k \in PrepareErrorKinds :
            /\ res' = [res EXCEPT ![w] = PreparationFailed(k)]
            /\ pc' = [pc EXCEPT ![w] = "process"]
            /\ UNCHANGED peer
       \/ /\ res' = [res EXCEPT ![w] = PingTimedOut]
          /\ pc' = [pc EXCEPT ![w] = "process"]
          /\ UNCHANGED peer
       \/ \E k \in ConnectErrorKinds :
            /\ res' = [res EXCEPT ![w] = PingFailed(k)]
            /\ pc' = [pc EXCEPT ![w] = "process"]
            /\ UNCHANGED peer
       \/ /\ ~cfg.check_disconnect
          /\ \E addr \in BOOLEAN : res' = [res EXCEPT ![w] = PingOkFrom(FALSE, addr)]
          /\ pc' = [pc EXCEPT ![w] = "process"]
          /\ UNCHANGED peer
       \/ /\ cfg.check_disconnect      \* connected; shutdown(Write) fails: a warning
          /\ \E addr \in BOOLEAN : res' = [res EXCEPT ![w] = PingOkFrom(TRUE, addr)]
          /\ pc' = [pc EXCEPT ![w] = "process"]
          /\ UNCHANGED peer
       \/ /\ cfg.check_disconnect      \* connected; shutdown(Write) done: drain
          /\ \E b \in {"closes", "silent", "sends"} : peer' = [peer EXCEPT ![w] = b]
          /\ \E addr \in BOOLEAN :    \* local_addr() is read before the drain
                res' = [res EXCEPT ![w] = [NoResult EXCEPT !.actual_local_addr = addr]]
          /\ pc' = [pc EXCEPT ![w] = "drain"]
    /\ UNCHANGED <<srvVars, pipeVars, unitVars, cfg, drained, port_picker, stop_event, cur, chan, issued, sent, dropped, after_stop>>

\* shutdown_connection: shutdown(Write), then recv until it returns 0 or fails
shutdown_connection(w) ==
    /\ pc[w] = "drain"
    /\ \/ /\ peer[w] = "closes"      \* recv returns 0: Ok(())
          /\ res' = [res EXCEPT ![w] = PingOkFrom(FALSE, res[w].actual_local_addr)]
          /\ pc' = [pc EXCEPT ![w] = "process"]
          /\ peer' = [peer EXCEPT ![w] = "none"]
          /\ drained' = [drained EXCEPT ![w] = 0]
       \/ /\ peer[w] = "silent"      \* recv fails when the read timeout fires
          /\ res' = [res EXCEPT ![w] = PingOkFrom(TRUE, res[w].actual_local_addr)]
          /\ pc' = [pc EXCEPT ![w] = "process"]
          /\ peer' = [peer EXCEPT ![w] = "none"]
          /\ drained' = [drained EXCEPT ![w] = 0]
       \/ /\ peer[w] = "sends"       \* recv returns n > 0: continue
          /\ drained' = [drained EXCEPT ![w] = 1 - @]
          /\ UNCHANGED <<res, pc, peer>>
    /\ UNCHANGED <<srvVars, pipeVars, unitVars, cfg, port_picker, stop_event, cur, chan, issued, sent, dropped, after_stop>>

\* the peer of a connection under drain closes its side or stops sending
PeerChanges(w) ==
    /\ pc[w] = "drain"
    /\ peer[w] = "sends"
    /\ \E b \in {"closes", "silent"} : peer' = [peer EXCEPT ![w] = b]
    /\ UNCHANGED <<srvVars, pipeVars, unitVars, cfg, drained, port_picker, stop_event, pc, cur, res, chan, issued, sent, dropped, after_stop>>

\* the PingResult built from the client's outcome. ping_time is the clock read at
\* the start of run_single_ping, held as the probe's position in the picker
\* sequence, which orders the probes of one worker as the clock does.
\* is_timed_out and error (stage, kind) are those of the client's outcome.
\* source is the address the client reported (the local IP the OS chose, the
\* port the socket was bound to) or, without one, the configured source IP with
\* the port of the picker pair.
PingResultNew_configured_source(w) ==
    [ping_time |-> cur[w].idx, worker_id |-> w,
     port |-> cur[w].port, is_warmup |-> cur[w].is_warmup,
     is_timed_out |-> res[w].is_timed_out, stage |-> res[w].stage, kind |-> res[w].kind,
     source |-> [ip |-> "source_ip", port |-> cur[w].port]]

PingResultNew(w) ==
    [ping_time |-> cur[w].idx, worker_id |-> w,
     port |-> cur[w].port, is_warmup |-> cur[w].is_warmup,
     is_timed_out |-> res[w].is_timed_out, stage |-> res[w].stage, kind |-> res[w].kind,
     source |-> IF res[w].actual_local_addr
                THEN [ip |-> "local_ip", port |-> cur[w].port]
                ELSE [ip |-> "source_ip", port |-> cur[w].port]]

\* the check on inner_error that decides whether the probe is dropped
IsDropped(r) == r.kind = "AddrInUse"

\* the worker goes on to the next port without the inter-probe wait
process_ping_client_result_skips_wait(w) ==
    /\ pc[w] = "process"
    /\ IF IsDropped(res[w])
       THEN /\ dropped' = dropped + 1
            /\ UNCHANGED <<chan, sent>>
       ELSE /\ Len(chan) < ChanCap
            /\ chan' = Append(chan, PingResultNew(w))
            /\ sent' = sent + 1
            /\ UNCHANGED dropped
    /\ pc' = [pc EXCEPT ![w] = "acquire"]
    /\ res' = [res EXCEPT ![w] = NoResult]
    /\ UNCHANGED <<srvVars, pipeVars, unitVars, cfg, drained, port_picker, stop_event, cur, peer, issued, after_stop>>

\* the result is sent with try_send: it is lost when the channel is full
process_ping_client_result_try_send(w) ==
    /\ pc[w] = "process"
    /\ IF IsDropped(res[w])
       THEN /\ dropped' = dropped + 1
            /\ UNCHANGED <<chan, sent>>
       ELSE /\ chan' = IF Len(chan) < ChanCap THEN Append(chan, PingResultNew(w)) ELSE chan
            /\ sent' = sent + 1
            /\ UNCHANGED dropped
    /\ pc' = [pc EXCEPT ![w] = "wait"]
    /\ res' = [res EXCEPT ![w] = NoResult]
    /\ UNCHANGED <<srvVars, pipeVars, unitVars, cfg, drained, port_picker, stop_event, cur, peer, issued, after_stop>>

\* after a dropped probe the worker pings again at once, with the same port
process_ping_client_result_retries_on_drop(w) ==
    /\ pc[w] = "process"
    /\ IF IsDropped(res[w])
       THEN /\ dropped' = dropped + 1
            /\ pc' = [pc EXCEPT ![w] = "ping"]
            /\ UNCHANGED <<chan, sent>>
       ELSE /\ Len(chan) < ChanCap
            /\ chan' = Append(chan, PingResultNew(w))
            /\ sent' = sent + 1
            /\ pc' = [pc EXCEPT ![w] = "wait"]
            /\ UNCHANGED dropped
    /\ res' = [res EXCEPT ![w] = NoResult]
    /\ UNCHANGED <<srvVars, pipeVars, unitVars, cfg, drained, port_picker, stop_event, cur, peer, issued, after_stop>>

\* process_ping_client_result: drop on AddrInUse, otherwise build and send the result
process_ping_client_result(w) ==
    /\ pc[w] = "process"
    /\ IF IsDropped(res[w])
       THEN /\ dropped' = dropped + 1
            /\ UNCHANGED <<chan, sent>>
       ELSE /\ Len(chan) < ChanCap
            /\ chan' = Append(chan, PingResultNew(w))
            /\ sent' = sent + 1
            /\ UNCHANGED dropped
    /\ pc' = [pc EXCEPT ![w] = "wait"]
    /\ res' = [res EXCEPT ![w] = NoResult]
    /\ UNCHANGED <<srvVars, pipeVars, unitVars, cfg, drained, port_picker, stop_event, cur, peer, issued, after_stop>>

\* the interval of an unbounded run elapses only while pairs are left under the cap
IntervalElapses ==
    cfg.budget.bounded \/ Len(issued) + Cardinality({v \in Workers : pc[v] = "acquire"}) < MaxIssued

\* the interval timer is polled before the stop event
wait_for_next_schedule_timer_first(w) ==
    /\ pc[w] = "wait"
    /\ \/ /\ IntervalElapses
          /\ pc' = [pc EXCEPT ![w] = "acquire"]
       \/ /\ stop_event
          /\ pc' = [pc EXCEPT ![w] = "exited"]
    /\ UNCHANGED <<srvVars, pipeVars, unitVars, cfg, drained, port_picker, stop_event, cur, res, peer, chan, issued, sent, dropped, after_stop>>

\* the stop event is consumed by the waiter that sees it (an auto-reset event)
wait_for_next_schedule_auto_reset(w) ==
    /\ pc[w] = "wait"
    /\ IF stop_event
       THEN /\ pc' = [pc EXCEPT ![w] = "exited"]
            /\ stop_event' = FALSE
       ELSE /\ IntervalElapses
            /\ pc' = [pc EXCEPT ![w] = "acquire"]
            /\ UNCHANGED stop_event
    /\ UNCHANGED <<srvVars, pipeVars, unitVars, cfg, drained, port_picker, cur, res, peer, chan, issued, sent, dropped, after_stop>>

\* wait_for_next_schedule: timeout(ping_interval, stop_event.wait()); the stop
\* event is polled first, the interval timer only when it is not set
wait_for_next_schedule(w) ==
    /\ pc[w] = "wait"
    /\ IF stop_event
       THEN pc' = [pc EXCEPT ![w] = "exited"]
       ELSE /\ IntervalElapses
            /\ pc' = [pc EXCEPT ![w] = "acquire"]
    /\ UNCHANGED <<srvVars, pipeVars, unitVars, cfg, drained, port_picker, stop_event, cur, res, peer, chan, issued, sent, dropped, after_stop>>

(* ---------------------------- stub server ------------------------------ *)
\* run sets server_started_event before it binds the listener
StubServerTcp_bind_set_first ==
    /\ srv_pc = "bind"
    /\ server_started_event' = TRUE
    /\ \/ srv_pc' = "returned_err"
       \/ srv_pc' = "select"
    /\ UNCHANGED <<workerVars, pipeVars, unitVars, stop_event, next_conn_id, conn_stats_map, conn_stats, conn_pc>>

\* run: TcpListener::bind, then server_started_event.set()
StubServerTcp_bind ==
    /\ srv_pc = "bind"
    /\ \/ /\ srv_pc' = "returned_err"
          /\ UNCHANGED server_started_event
       \/ /\ srv_pc' = "select"
          /\ server_started_event' = TRUE
    /\ UNCHANGED <<workerVars, pipeVars, unitVars, stop_event, next_conn_id, conn_stats_map, conn_stats, conn_pc>>

\* run, the accept branch of the select: handle_new_connection, or break on error
handle_new_connection ==
    /\ srv_pc = "select"
    /\ \/ /\ next_conn_id < MaxConns
          /\ next_conn_id' = next_conn_id + 1
          /\ conn_stats_map' = conn_stats_map \cup {next_conn_id}
          /\ conn_stats' = [conn_stats EXCEPT ![next_conn_id] = StubServerTcpConnectionStats]
          /\ conn_pc' = [conn_pc EXCEPT ![next_conn_id] = "select"]
          /\ UNCHANGED srv_pc
       \/ /\ srv_pc' = "returned_ok"
          /\ UNCHANGED <<next_conn_id, conn_stats_map, conn_stats, conn_pc>>
    /\ UNCHANGED <<workerVars, pipeVars, unitVars, stop_event, server_started_event>>

\* clear_stats
clear_stats(st) == [st EXCEPT !.bytes_read = 0, !.bytes_write = 0]

\* run, the report branch: report_and_reset_conn_stats up to the end of the
\* loop that locks, reports and clears each connection's stats
report_and_reset_conn_stats ==
    /\ srv_pc = "select"
    /\ IF conn_stats_map = {}
       THEN UNCHANGED <<srv_pc, conn_stats>>
       ELSE /\ conn_stats' = [c \in ConnIds |->
                                 IF c \in conn_stats_map THEN clear_stats(conn_stats[c])
                                                         ELSE conn_stats[c]]
            /\ srv_pc' = "retain"
    /\ UNCHANGED <<workerVars, pipeVars, unitVars, stop_event, server_started_event, next_conn_id, conn_stats_map, conn_pc>>

\* report_and_reset_conn_stats, its last statement: retain the live connections
retain_alive ==
    /\ srv_pc = "retain"
    /\ conn_stats_map' = {c \in conn_stats_map : conn_stats[c].is_alive}
    /\ srv_pc' = "select"
    /\ UNCHANGED <<workerVars, pipeVars, unitVars, stop_event, server_started_event, next_conn_id, conn_stats, conn_pc>>

\* run, the stop branch of the select: break and return Ok
StubServerTcp_stopped ==
    /\ srv_pc = "select"
    /\ stop_event
    /\ srv_pc' = "returned_ok"
    /\ UNCHANGED <<workerVars, pipeVars, unitVars, stop_event, server_started_event, next_conn_id, conn_stats_map, conn_stats, conn_pc>>

\* StubServerTcpConnection::run after run_loop failed: is_alive = false
ConnectionFailed(c) ==
    /\ conn_stats' = [conn_stats EXCEPT ![c].is_alive = FALSE]
    /\ conn_pc' = [conn_pc EXCEPT ![c] = "returned"]

\* the select of a connection task polls worker.run(): at the task's first poll,
\* or when the stream has woken the task
StubServerTcpConnection_run(c) ==
    /\ conn_pc[c] = "select"
    /\ conn_pc' = [conn_pc EXCEPT ![c] = "running"]
    /\ UNCHANGED <<workerVars, pipeVars, unitVars, stop_event, srv_pc, server_started_event, next_conn_id, conn_stats_map, conn_stats>>

\* run_loop, stream.ready(READABLE | WRITABLE).await is pending: the only point
\* where run_loop suspends; the select then polls the stop branch
run_loop_pending(c) ==
    /\ conn_pc[c] = "running"
    /\ conn_pc' = [conn_pc EXCEPT ![c] = IF stop_event THEN "returned" ELSE "select"]
    /\ UNCHANGED <<workerVars, pipeVars, unitVars, stop_event, srv_pc, server_started_event, next_conn_id, conn_stats_map, conn_stats>>

\* on_connection_read: try_read returns Ok(n), WouldBlock or an error
on_connection_read(c) ==
    /\ conn_pc[c] = "running"
    /\ \/ \E n \in 0..1 :
            /\ conn_stats[c].bytes_read + n <= MaxBytes
            /\ conn_stats' = [conn_stats EXCEPT ![c].bytes_read = @ + n]
            /\ UNCHANGED conn_pc
       \/ ConnectionFailed(c)
    /\ UNCHANGED <<workerVars, pipeVars, unitVars, stop_event, srv_pc, server_started_event, next_conn_id, conn_stats_map>>

\* on_connection_write: try_write returns Ok(n), WouldBlock or an error
on_connection_write(c) ==
    /\ conn_pc[c] = "running"
    /\ \/ \E n \in 0..1 :
            /\ conn_stats[c].bytes_write + n <= MaxBytes
            /\ conn_stats' = [conn_stats EXCEPT ![c].bytes_write = @ + n]
            /\ UNCHANGED conn_pc
       \/ ConnectionFailed(c)
    /\ UNCHANGED <<workerVars, pipeVars, unitVars, stop_event, srv_pc, server_started_event, next_conn_id, conn_stats_map>>

\* the connection task's select polls the stop branch while run() is not being
\* polled: it returns without touching the stats
connection_stopped(c) ==
    /\ conn_pc[c] = "select"
    /\ stop_event
    /\ conn_pc' = [conn_pc EXCEPT ![c] = "returned"]
    /\ UNCHANGED <<workerVars, pipeVars, unitVars, stop_event, srv_pc, server_started_event, next_conn_id, conn_stats_map, conn_stats>>

(* --------------------------- environment ------------------------------- *)
\* the stop trigger: stop_event.set()
SetStop ==
    /\ ~stop_event
    /\ stop_event' = TRUE
    /\ UNCHANGED <<srvVars, pipeVars, unitVars, workerVars>>

\* the receiving end of the result channel takes the oldest result
ReceiveResult ==
    /\ chan # <<>>
    /\ chan' = Tail(chan)
    /\ UNCHANGED <<srvVars, pipeVars, unitVars, cfg, drained, port_picker, stop_event, pc, cur, res, peer, issued, sent, dropped, after_stop>>

(* ------------- PingClientTcp::ping_target, statement by statement ------- *)
\* the socket calls of prepare_socket_for_ping, in order, for the client's config
PrepareCalls(t) ==
    <<"Socket::new", "bind", "set_read_timeout">>
      \o (IF ~t.check_disconnect THEN <<"set_linger">> ELSE <<>>)
      \o (IF t.time_to_live THEN <<"set_ttl">> ELSE <<>>)

\* the io::ErrorKind a failing call of prepare_socket_for_ping reports
PrepareCallErrorKinds(name) == IF name = "bind" THEN PrepareErrorKinds ELSE {"Other"}

\* the call made, with its result ("Ok" or the error kind), added to the trace
Called(t, name, result) == Append(t.calls, [name |-> name, result |-> result])

\* socket.local_addr() was Ok
LocalAddrOk(t) == \E i \in 1..Len(t.calls) : t.calls[i] = [name |-> "local_addr", result |-> "Ok"]

\* ping_target returns r; Some(addr) is passed on only by the two final returns
Returned(t, r, addr) ==
    [t EXCEPT !.pc = "returned", !.ret = [r EXCEPT !.actual_local_addr = addr],
              !.actual_local_addr = addr]

\* prepare_socket_for_ping: the next call of the list; `?` returns the first error,
\* which ping_target maps to PreparationFailed
prepare_socket_for_ping ==
    /\ tcp.pc = "prepare"
    /\ LET name == PrepareCalls(tcp)[Len(tcp.calls) + 1] IN
         \/ /\ tcp' = [tcp EXCEPT !.calls = Called(tcp, name, "Ok"),
                                   !.pc = IF Len(tcp.calls) + 1 = Len(PrepareCalls(tcp))
                                          THEN "connect" ELSE "prepare"]
         \/ \E k \in PrepareCallErrorKinds(name) :
                tcp' = Returned([tcp EXCEPT !.calls = Called(tcp, name, k)],
                                PreparationFailed(k), FALSE)
    /\ UNCHANGED <<srvVars, pipeVars, workerVars, stop_event, logger, logger_calls, fmt, stdout>>

\* socket.connect_timeout and the match on its result
connect_timeout ==
    /\ tcp.pc = "connect"
    /\ \/ tcp' = Returned([tcp EXCEPT !.calls = Called(tcp, "connect_timeout", "TimedOut")],
                          PingTimedOut, FALSE)
       \/ \E k \in ConnectErrorKinds :
             tcp' = Returned([tcp EXCEPT !.calls = Called(tcp, "connect_timeout", k)],
                             PingFailed(k), FALSE)
       \/ tcp' = [tcp EXCEPT !.calls = Called(tcp, "connect_timeout", "Ok"), !.pc = "local_addr"]
    /\ UNCHANGED <<srvVars, pipeVars, workerVars, stop_event, logger, logger_calls, fmt, stdout>>

\* socket.local_addr(); without check_disconnect the final return follows
local_addr ==
    /\ tcp.pc = "local_addr"
    /\ \E r \in {"Ok", "Err"} :
          LET t == [tcp EXCEPT !.calls = Called(tcp, "local_addr", r)] IN
             tcp' = IF tcp.check_disconnect
                    THEN [t EXCEPT !.pc = "shutdown"]
                    ELSE Returned(t, PingOk(FALSE), r = "Ok")
    /\ UNCHANGED <<srvVars, pipeVars, workerVars, stop_event, logger, logger_calls, fmt, stdout>>

\* a failed half-close makes ping_target return PingFailed
shutdown_Write_fails_probe ==
    /\ tcp.pc = "shutdown"
    /\ \/ tcp' = Returned([tcp EXCEPT !.calls = Called(tcp, "shutdown", "Err")],
                          PingFailed("Other"), FALSE)
       \/ tcp' = [tcp EXCEPT !.calls = Called(tcp, "shutdown", "Ok"), !.pc = "recv"]
    /\ UNCHANGED <<srvVars, pipeVars, workerVars, stop_event, logger, logger_calls, fmt, stdout>>

\* shutdown_connection, socket.shutdown(Shutdown::Write)?: an error becomes the
\* DisconnectFailed warning of the final return
shutdown_Write ==
    /\ tcp.pc = "shutdown"
    /\ \/ tcp' = Returned([tcp EXCEPT !.calls = Called(tcp, "shutdown", "Err")],
                          PingOk(TRUE), LocalAddrOk(tcp))
       \/ tcp' = [tcp EXCEPT !.calls = Called(tcp, "shutdown", "Ok"), !.pc = "recv"]
    /\ UNCHANGED <<srvVars, pipeVars, workerVars, stop_event, logger, logger_calls, fmt, stdout>>

\* shutdown_connection, the loop while socket.recv(&mut buf)? > 0
recv_until_closed ==
    /\ tcp.pc = "recv"
    /\ \/ tcp' = Returned([tcp EXCEPT !.calls = Called(tcp, "recv", "0")],
                          PingOk(FALSE), LocalAddrOk(tcp))
       \/ tcp' = Returned([tcp EXCEPT !.calls = Called(tcp, "recv", "Err")],
                          PingOk(TRUE), LocalAddrOk(tcp))
       \/ /\ tcp.calls[Len(tcp.calls)].name # "recv"      \* n > 0: continue
          /\ tcp' = [tcp EXCEPT !.calls = Called(tcp, "recv", "n")]
    /\ UNCHANGED <<srvVars, pipeVars, workerVars, stop_event, logger, logger_calls, fmt, stdout>>

(* --------------- PingResultProcessorLatencyBucketLogger ---------------- *)
\* u128::MAX, the upper bound of the last bucket: held as the largest integer
\* of the model checker, above every latency of the model
U128_MAX == 2147483647

\* (x * 1000.0) as u128, for a separator x in milliseconds held in tenths of a
\* millisecond
MillisToMicros(x) == x * 100

\* Duration::from_millis; a Duration is held in tenths of a microsecond
from_millis(ms) == ms * 10000

\* Duration::as_micros: whole microseconds, the rest is cut off
as_micros(d) == d \div 10

\* {:.2} of (microseconds as f64 / 1000.0): milliseconds with two decimals,
\* rounded to the nearest hundredth
MillisText(us) ==
    LET hundredths == (us + 5) \div 10
    IN ToString(hundredths \div 100) \o "."
          \o (IF hundredths % 100 < 10 THEN "0" ELSE "") \o ToString(hundredths % 100)

\* new without the closing u128::MAX bound: the last separator ends the buckets
LatencyBucketLoggerNew_without_max(buckets) ==
    [created |-> TRUE, panicked |-> FALSE,
     buckets_in_us |-> [i \in 1..Len(buckets) |-> MillisToMicros(buckets[i])],
     total_hit_count |-> 0,
     bucket_hit_counts |-> [i \in 1..Len(buckets) |-> 0],
     timed_out_hit_count |-> 0,
     failed_hit_count |-> 0]

\* new: the separators as upper bounds in microseconds, then u128::MAX
LatencyBucketLoggerNew(buckets) ==
    [created |-> TRUE, panicked |-> FALSE,
     buckets_in_us |-> [i \in 1..(Len(buckets) + 1) |->
                          IF i <= Len(buckets) THEN MillisToMicros(buckets[i]) ELSE U128_MAX],
     total_hit_count |-> 0,
     bucket_hit_counts |-> [i \in 1..(Len(buckets) + 1) |-> 0],
     timed_out_hit_count |-> 0,
     failed_hit_count |-> 0]

\* the for loop of track_latency_in_buckets from bucket_index on: the index of
\* the bucket hit, 0 when the loop ends without a hit
RECURSIVE ScanBuckets(_, _, _)
ScanBuckets(l, latency, bucket_index) ==
    IF bucket_index > Len(l.buckets_in_us) THEN 0
    ELSE IF as_micros(latency) < l.buckets_in_us[bucket_index] THEN bucket_index
    ELSE ScanBuckets(l, latency, bucket_index + 1)

\* the comparison with the upper bound is <= : a latency equal to a separator
\* stays in the bucket below it
track_latency_in_buckets_inclusive(l, latency) ==
    LET hits == {i \in 1..Len(l.buckets_in_us) : as_micros(latency) <= l.buckets_in_us[i]} IN
       IF hits = {} THEN [l EXCEPT !.panicked = TRUE]
       ELSE [l EXCEPT !.bucket_hit_counts[CHOOSE i \in hits : \A j \in hits : i <= j] = @ + 1]

\* track_latency_in_buckets; unreachable!() panics
track_latency_in_buckets(l, latency) ==
    LET bucket_index == ScanBuckets(l, latency, 1) IN
       IF bucket_index = 0 THEN [l EXCEPT !.panicked = TRUE]
       ELSE [l EXCEPT !.bucket_hit_counts[bucket_index] = @ + 1]

\* update_statistics: error() is Some(e) for a result of stage prepare or connect
update_statistics(l, ping_result) ==
    LET t == [l EXCEPT !.total_hit_count = @ + 1] IN
       IF ping_result.stage \in {"prepare", "connect"}
       THEN IF ping_result.kind = "TimedOut"
            THEN [t EXCEPT !.timed_out_hit_count = @ + 1]
            ELSE [t EXCEPT !.failed_hit_count = @ + 1]
       ELSE track_latency_in_buckets(t, ping_result.round_trip_time)

\* the fields of a PingResult the logger reads, and is_timed_out and is_warmup
LoggerResult(rtt, timed_out, stage, kind, warmup) ==
    [round_trip_time |-> rtt, is_timed_out |-> timed_out, stage |-> stage, kind |-> kind,
     is_warmup |-> warmup]

\* the separator lists of the model: the strictly increasing lists over 0.1, 0.5
\* and 1.0 ms, and the list of the logger's test
SeparatorValues == {1, 5, 10}
TestBuckets == <<1, 5, 10, 100, 500, 1000>>
SeparatorLists ==
    { b \in UNION { [1..n -> SeparatorValues] : n \in 0..MaxSeparators } :
         \A i \in 1..(Len(b) - 1) : b[i] < b[i + 1] } \cup {TestBuckets}

\* round trip times below, at and above the separators
RttValues == {0, 999, 1000, 1009, 5000, from_millis(1), from_millis(10), from_millis(1000)}

\* the results of the model: successes, the timeout as ping_target and the worker
\* report it (is_timed_out, no error), PingFailed and PreparationFailed errors,
\* and the timeout of the logger's test (an error of kind TimedOut)
LoggerResults ==
    { LoggerResult(rtt, FALSE, "ok", "None", wu) : rtt \in RttValues, wu \in BOOLEAN }
    \cup { LoggerResult(from_millis(1000), TRUE, "ok", "None", wu) : wu \in BOOLEAN }
    \cup { LoggerResult(0, FALSE, "connect", "ConnectionRefused", wu) : wu \in BOOLEAN }
    \cup { LoggerResult(0, FALSE, "prepare", "AddrNotAvailable", wu) : wu \in BOOLEAN }
    \cup { LoggerResult(from_millis(1000), FALSE, "connect", "TimedOut", wu) : wu \in BOOLEAN }

\* the rows done() prints for the buckets from bucket_index on (indices from 1):
\* "< bound" for every bucket but the last, ">= previous bound" for the last; the
\* previous bound of the first bucket is an index before the start of the array,
\* where the loop panics: the rows so far end with the panic message
RECURSIVE BucketRows(_, _)
BucketRows(l, bucket_index) ==
    IF bucket_index > Len(l.buckets_in_us) THEN <<>>
    ELSE IF bucket_index < Len(l.buckets_in_us)
    THEN << <<"< " \o MillisText(l.buckets_in_us[bucket_index]) \o "ms",
              ToString(l.bucket_hit_counts[bucket_index])>> >>
            \o BucketRows(l, bucket_index + 1)
    ELSE IF bucket_index - 1 >= 1
    THEN << <<">= " \o MillisText(l.buckets_in_us[bucket_index - 1]) \o "ms",
              ToString(l.bucket_hit_counts[bucket_index])>> >>
            \o BucketRows(l, bucket_index + 1)
    ELSE << <<"panicked">> >>

\* the lines before and after the bucket rows
TableHead ==
    << <<"\n=== Latency buckets (in milliseconds) ===\n">>,
       <<"Latency Range", "Count">>,
       <<"----------------+------------ ">> >>
TableFoot(l) ==
    << <<"Timed Out", ToString(l.timed_out_hit_count)>>,
       <<"Failed", ToString(l.failed_hit_count)>>,
       <<"----------------+------------ ">>,
       <<"Total", ToString(l.total_hit_count)>> >>

\* the loop of done() panicked: the panic message ends the output
DonePanicked(out) == out # <<>> /\ out[Len(out)] = <<"panicked">>

\* done() of the logger: the table; a panic in the loop ends the call
done ==
    /\ logger.created
    /\ stdout = <<>>
    /\ LET rows == BucketRows(logger, 1) IN
          stdout' = IF DonePanicked(rows)
                    THEN TableHead \o rows
                    ELSE TableHead \o rows \o TableFoot(logger)
    /\ UNCHANGED <<srvVars, pipeVars, workerVars, stop_event, tcp, logger, logger_calls, fmt>>

\* process(ping_result) of the logger
process ==
    /\ logger.created
    /\ stdout = <<>>
    /\ Len(logger_calls) < MaxProcessCalls
    /\ \E r \in LoggerResults :
          /\ logger' = update_statistics(logger, r)
          /\ logger_calls' = Append(logger_calls, r)
    /\ UNCHANGED <<srvVars, pipeVars, workerVars, stop_event, tcp, fmt, stdout>>

(* ------------------------ PingResult formatters ------------------------ *)
RECURSIVE Join(_)
\* the text a format string produces: its pieces one after the other
Join(pieces) == IF pieces = <<>> THEN "" ELSE Head(pieces) \o Join(Tail(pieces))

\* {} of a bool
BoolText(b) == IF b THEN "true" ELSE "false"

\* {:.2} of round_trip_time().as_micros() as f64 / 1000.0
RttText(round_trip_time) == MillisText(as_micros(round_trip_time))

\* {} of a SocketAddr
AddrText(ip, port) == ip \o ":" \o ToString(port)

\* PingClientError::to_string: the variant's prefix, then the text of the boxed error
to_string(e) ==
    (IF e.variant = "PreparationFailed" THEN "preparation failed: " ELSE "ping failed: ") \o e.msg

\* PingResult::is_preparation_error
is_preparation_error(r) == r.error.variant = "PreparationFailed"

\* the pieces every console line starts with, up to the warmup sign
ConsoleHead(r, opening) ==
    << opening, r.protocol, " ", AddrText(r.target_ip, r.target_port), " from ",
       AddrText(r.source_ip, r.source_port), IF r.is_warmup THEN " (warmup)" ELSE "" >>

\* the formatter looks at the error before it looks at is_timed_out
format_as_console_log_error_first(r) ==
    IF r.error.variant = "PreparationFailed"
    THEN ConsoleHead(r, "Unable to perform ping to ")
            \o <<", because failing to prepare local socket: Error = ", r.error.msg>>
    ELSE IF r.error.variant = "PingFailed"
    THEN ConsoleHead(r, "Reaching ") \o <<" failed: ", r.error.msg>>
    ELSE IF r.is_timed_out
    THEN ConsoleHead(r, "Reaching ")
            \o <<" failed: Timed out, RTT = ", RttText(r.round_trip_time), "ms">>
    ELSE ConsoleHead(r, "Reaching ")
            \o <<" succeeded: RTT=", RttText(r.round_trip_time), "ms">>

\* PingResult::format_as_console_log: the pieces of the returned line
format_as_console_log(r) ==
    IF r.is_timed_out
    THEN ConsoleHead(r, "Reaching ")
            \o <<" failed: Timed out, RTT = ", RttText(r.round_trip_time), "ms">>
    ELSE IF r.error.variant = "PreparationFailed"
    THEN ConsoleHead(r, "Unable to perform ping to ")
            \o <<", because failing to prepare local socket: Error = ", r.error.msg>>
    ELSE IF r.error.variant = "PingFailed"
    THEN ConsoleHead(r, "Reaching ") \o <<" failed: ", r.error.msg>>
    ELSE ConsoleHead(r, "Reaching ")
            \o <<" succeeded: RTT=", RttText(r.round_trip_time), "ms">>

\* the text of the error field of the JSON and CSV records
error_message(r) == IF r.error.variant = "None" THEN "" ELSE to_string(r.error)

\* the JSON record marks a timed out result as a preparation error
format_as_json_string_timeout_is_preparation(r) ==
    << <<"utcTime", r.ping_time, TRUE>>,
       <<"protocol", r.protocol, TRUE>>,
       <<"workerId", ToString(r.worker_id), FALSE>>,
       <<"targetIP", r.target_ip, TRUE>>,
       <<"targetPort", ToString(r.target_port), TRUE>>,
       <<"sourceIP", r.source_ip, TRUE>>,
       <<"sourcePort", ToString(r.source_port), TRUE>>,
       <<"isWarmup", BoolText(r.is_warmup), TRUE>>,
       <<"roundTripTimeInMs", RttText(r.round_trip_time), FALSE>>,
       <<"isTimedOut", BoolText(r.is_timed_out), TRUE>>,
       <<"error", error_message(r), TRUE>>,
       <<"isPreparationError", BoolText(is_preparation_error(r) \/ r.is_timed_out), TRUE>> >>

\* PingResult::format_as_json_string: the members of the object, in order, each
\* as <<key, text of the value, value is quoted>>
format_as_json_string(r) ==
    << <<"utcTime", r.ping_time, TRUE>>,
       <<"protocol", r.protocol, TRUE>>,
       <<"workerId", ToString(r.worker_id), FALSE>>,
       <<"targetIP", r.target_ip, TRUE>>,
       <<"targetPort", ToString(r.target_port), TRUE>>,
       <<"sourceIP", r.source_ip, TRUE>>,
       <<"sourcePort", ToString(r.source_port), TRUE>>,
       <<"isWarmup", BoolText(r.is_warmup), TRUE>>,
       <<"roundTripTimeInMs", RttText(r.round_trip_time), FALSE>>,
       <<"isTimedOut", BoolText(r.is_timed_out), TRUE>>,
       <<"error", error_message(r), TRUE>>,
       <<"isPreparationError", BoolText(is_preparation_error(r)), TRUE>> >>

\* PingResult::format_as_csv_string: the columns of the record, in order; the
\* error column is written between double quotes
format_as_csv_string(r) ==
    << r.ping_time, ToString(r.worker_id), r.protocol, r.target_ip,
       ToString(r.target_port), r.source_ip, ToString(r.source_port),
       BoolText(r.is_warmup), RttText(r.round_trip_time), BoolText(r.is_timed_out),
       "\"" \o error_message(r) \o "\"", BoolText(is_preparation_error(r)) >>

\* the four results of generate_test_samples
TestSamples ==
    << SamplePingResult(TRUE, 100000, FALSE, NoError),
       SamplePingResult(FALSE, 10000000, TRUE, NoError),
       SamplePingResult(FALSE, 0, FALSE, ErrPingFailed("connect failed")),
       SamplePingResult(FALSE, 0, FALSE, ErrPreparationFailed("address in use")) >>

\* the results of the model: every combination of warmup flag, timeout flag and
\* error, with round trip times of 0, 1.2346, 1.2371, 10 and 1000 ms
FormatErrors == {NoError, ErrPingFailed("connect failed"), ErrPreparationFailed("address in use")}
FormatRtts == {0, 12346, 12371, 100000, 10000000}
FormatResults ==
    { SamplePingResult(wu, rtt, to, e) :
         wu \in BOOLEAN, rtt \in FormatRtts, to \in BOOLEAN, e \in FormatErrors }

\* a caller formats the result for the console
console_log ==
    /\ fmt.console = <<>>
    /\ fmt' = [fmt EXCEPT !.console = format_as_console_log(fmt.result)]
    /\ UNCHANGED <<srvVars, pipeVars, workerVars, stop_event, tcp, logger, logger_calls, stdout>>

\* a caller formats the result as a JSON record
json_string ==
    /\ fmt.json = <<>>
    /\ fmt' = [fmt EXCEPT !.json = format_as_json_string(fmt.result)]
    /\ UNCHANGED <<srvVars, pipeVars, workerVars, stop_event, tcp, logger, logger_calls, stdout>>

\* a caller formats the result as a CSV record
csv_string ==
    /\ fmt.csv = <<>>
    /\ fmt' = [fmt EXCEPT !.csv = format_as_csv_string(fmt.result)]
    /\ UNCHANGED <<srvVars, pipeVars, workerVars, stop_event, tcp, logger, logger_calls, stdout>>

(* ------------------- scheduler and processor chain --------------------- *)
\* a sender end of the result channel is open: the scheduler's, or the clone a
\* worker owns until its task ends
SenderOpen == result_sender \/ \E w \in Workers : pc[w] # "exited"

\* the chain task takes an empty channel for the end of the stream
EndOfStream_on_empty == chan = <<>>

\* recv() on the result channel returns None: nothing queued, every sender dropped
EndOfStream == chan = <<>> /\ ~SenderOpen

\* the scheduler: after joining all the workers it closes its sender end
join_workers ==
    /\ result_sender
    /\ \A w \in Workers : pc[w] = "exited"
    /\ result_sender' = FALSE
    /\ UNCHANGED <<srvVars, unitVars, workerVars, stop_event,
                   chain_pc, chain_cur, chain_i, chain_log, chain_done>>

\* the chain task takes the oldest result off the channel, or sees end-of-stream
chain_recv ==
    /\ chain_pc = "recv"
    /\ IF chan # <<>>
       THEN /\ chain_cur' = Head(chan)
            /\ chan' = Tail(chan)
            /\ chain_pc' = "process"
       ELSE /\ EndOfStream
            /\ chain_pc' = "done"
            /\ UNCHANGED <<chan, chain_cur>>
    /\ chain_i' = 1
    /\ UNCHANGED <<srvVars, unitVars, cfg, drained, port_picker, stop_event, pc, cur, res, peer,
                   issued, sent, dropped, after_stop, result_sender, chain_log, chain_done>>

\* the chain stops at the first processor: the later ones never see the result
call_process_first_only(p) ==
    /\ chain_pc = "process"
    /\ chain_i = p
    /\ chain_log' = [chain_log EXCEPT ![p] = Append(@, chain_cur)]
    /\ chain_pc' = "recv"
    /\ chain_i' = 1
    /\ chain_cur' = NoPingResult
    /\ UNCHANGED <<srvVars, unitVars, workerVars, stop_event, result_sender, chain_done>>

\* process(result) of the next processor of the pipeline
call_process(p) ==
    /\ chain_pc = "process"
    /\ chain_i = p
    /\ chain_log' = [chain_log EXCEPT ![p] = Append(@, chain_cur)]
    /\ IF p = NumProcessors
       THEN /\ chain_pc' = "recv"
            /\ chain_i' = 1
            /\ chain_cur' = NoPingResult
       ELSE /\ chain_i' = p + 1
            /\ UNCHANGED <<chain_pc, chain_cur>>
    /\ UNCHANGED <<srvVars, unitVars, workerVars, stop_event, result_sender, chain_done>>

\* done() of the next processor of the pipeline, after end-of-stream
call_done(p) ==
    /\ chain_pc = "done"
    /\ chain_i = p
    /\ chain_done' = [chain_done EXCEPT ![p] = @ + 1]
    /\ IF p = NumProcessors
       THEN /\ chain_pc' = "finished"
            /\ chain_i' = 1
       ELSE /\ chain_i' = p + 1
            /\ UNCHANGED chain_pc
    /\ UNCHANGED <<srvVars, unitVars, workerVars, stop_event, result_sender, chain_cur, chain_log>>

WorkerStep(w) ==
    \/ run_worker_loop(w)
    \/ ping_target(w)
    \/ shutdown_connection(w)
    \/ process_ping_client_result(w)
    \/ wait_for_next_schedule(w)

Next ==
    \/ \E w \in Workers : run_worker_loop(w)
    \/ \E w \in Workers : ping_target(w)
    \/ \E w \in Workers : shutdown_connection(w)
    \/ \E w \in Workers : PeerChanges(w)
    \/ \E w \in Workers : process_ping_client_result(w)
    \/ \E w \in Workers : wait_for_next_schedule(w)
    \/ SetStop
    \/ ReceiveResult

Spec == Init /\ [][Next]_vars

\* every worker task and the receiver of the result channel keep being scheduled
WorkerFairness == (\A w \in Workers : WF_vars(WorkerStep(w))) /\ WF_vars(ReceiveResult)

\* runs over the whole port range without warmup, under fair scheduling
LiveConfigs == { c \in Configs : c.min_port = 1 /\ c.max_port = MaxPort /\ c.warmup = 0 }

LiveInit ==
    /\ \E c \in LiveConfigs : PingWorkers(c, TRUE)
    /\ stop_event = FALSE
    /\ StubServerTcp(FALSE)
    /\ ProcessorChain(FALSE)
    /\ NoUnits

LiveSpec == LiveInit /\ [][Next]_vars /\ WorkerFairness

\* the stub server alone (server mode)
SrvNext ==
    \/ StubServerTcp_bind
    \/ handle_new_connection
    \/ report_and_reset_conn_stats
    \/ retain_alive
    \/ StubServerTcp_stopped
    \/ \E c \in ConnIds : StubServerTcpConnection_run(c)
    \/ \E c \in ConnIds : run_loop_pending(c)
    \/ \E c \in ConnIds : on_connection_read(c)
    \/ \E c \in ConnIds : on_connection_write(c)
    \/ \E c \in ConnIds : connection_stopped(c)
    \/ SetStop

SrvInit ==
    /\ \E c \in LiveConfigs : ~c.budget.bounded /\ ~c.check_disconnect /\ PingWorkers(c, FALSE)
    /\ stop_event = FALSE
    /\ StubServerTcp(TRUE)
    /\ ProcessorChain(FALSE)
    /\ NoUnits

SrvSpec == SrvInit /\ [][SrvNext]_vars

\* the server task is scheduled; its select and the select of every connection
\* task poll their branches in random order, so a ready stop branch is taken
SrvFairness ==
    /\ WF_vars(StubServerTcp_bind)
    /\ WF_vars(retain_alive)
    /\ SF_vars(StubServerTcp_stopped)
    /\ \A c \in ConnIds : WF_vars(connection_stopped(c))

\* the stub server alone, its tasks fairly scheduled
SrvLiveSpec == SrvInit /\ [][SrvNext]_vars /\ SrvFairness

\* the workers, with a budget of one probe, and the stub server observing one
\* stop event
StopConfigs == { c \in LiveConfigs : c.budget.bounded /\ c.budget.total = 1 }

StopInit ==
    /\ \E c \in StopConfigs : PingWorkers(c, TRUE)
    /\ stop_event = FALSE
    /\ StubServerTcp(TRUE)
    /\ ProcessorChain(FALSE)
    /\ NoUnits

StopNext == Next \/ SrvNext

StopSpec == StopInit /\ [][StopNext]_vars /\ WorkerFairness /\ SrvFairness

\* the workers, the scheduler and the processor chain, over the whole port range
\* and without the disconnect check
PipeConfigs == { c \in Configs : c.min_port = 1 /\ c.max_port = MaxPort /\ ~c.check_disconnect }

PipeInit ==
    /\ \E c \in PipeConfigs : PingWorkers(c, TRUE)
    /\ stop_event = FALSE
    /\ StubServerTcp(FALSE)
    /\ ProcessorChain(TRUE)
    /\ NoUnits

PipeNext ==
    \/ \E w \in Workers : run_worker_loop(w)
    \/ \E w \in Workers : ping_target(w)
    \/ \E w \in Workers : process_ping_client_result(w)
    \/ \E w \in Workers : wait_for_next_schedule(w)
    \/ SetStop
    \/ join_workers
    \/ chain_recv
    \/ \E p \in Processors : call_process(p)
    \/ \E p \in Processors : call_done(p)

PipeSpec == PipeInit /\ [][PipeNext]_vars

\* one call of PingClientTcp::ping_target, for every client config, source
\* address family and outcome of the socket calls
ClientInit ==
    /\ \E v4, cd, ttl \in BOOLEAN :
          tcp = [IdleCall EXCEPT !.pc = "prepare", !.is_ipv4 = v4,
                                 !.check_disconnect = cd, !.time_to_live = ttl]
    /\ logger = NoLogger
    /\ logger_calls = <<>>
    /\ fmt = Unformatted(SamplePingResult(FALSE, 0, FALSE, NoError))
    /\ stdout = <<>>
    /\ \E c \in StopConfigs : ~c.check_disconnect /\ PingWorkers(c, FALSE)
    /\ stop_event = FALSE
    /\ StubServerTcp(FALSE)
    /\ ProcessorChain(FALSE)

ClientNext ==
    \/ prepare_socket_for_ping
    \/ connect_timeout
    \/ local_addr
    \/ shutdown_Write
    \/ recv_until_closed

ClientSpec == ClientInit /\ [][ClientNext]_vars

\* a latency bucket logger created for a list of separators, then fed results
BucketInit ==
    /\ \E b \in SeparatorLists : logger = LatencyBucketLoggerNew(b)
    /\ logger_calls = <<>>
    /\ tcp = IdleCall
    /\ fmt = Unformatted(SamplePingResult(FALSE, 0, FALSE, NoError))
    /\ stdout = <<>>
    /\ \E c \in StopConfigs : ~c.check_disconnect /\ PingWorkers(c, FALSE)
    /\ stop_event = FALSE
    /\ StubServerTcp(FALSE)
    /\ ProcessorChain(FALSE)

BucketNext == process \/ done

BucketSpec == BucketInit /\ [][BucketNext]_vars

\* one PingResult, formatted for the console, as JSON and as CSV in any order
FormatInit ==
    /\ \E r \in FormatResults : fmt = Unformatted(r)
    /\ stdout = <<>>
    /\ tcp = IdleCall
    /\ logger = NoLogger
    /\ logger_calls = <<>>
    /\ \E c \in StopConfigs : ~c.check_disconnect /\ PingWorkers(c, FALSE)
    /\ stop_event = FALSE
    /\ StubServerTcp(FALSE)
    /\ ProcessorChain(FALSE)

FormatNext ==
    \/ console_log
    \/ json_string
    \/ csv_string

FormatSpec == FormatInit /\ [][FormatNext]_vars

(* ============================== claims ================================= *)
AllExited == \A w \in Workers : pc[w] = "exited"
RangeSize == cfg.max_port - cfg.min_port + 1
\* a probe is in flight from the bind in ping_target until the socket is dropped
InFlight(w) == pc[w] \in {"ping", "drain"}
PickerExhausted == port_picker.bounded /\ port_picker.remaining_total = 0

\* C1: with a bounded budget at most `total` pairs are handed out; a next() call
\* returns None exactly when remaining_total is 0, and from then on the picker
\* stays exhausted, so no later call by any worker returns Some.
C1_BudgetBoundsPairs ==
    [][ /\ cfg.budget.bounded => Len(issued') <= cfg.budget.total
        /\ \A w \in Workers :
              (pc[w] = "acquire" /\ pc'[w] # "acquire")
                 => ((pc'[w] = "exited" /\ issued' = issued) <=> PickerExhausted)
        /\ PickerExhausted => port_picker' = port_picker ]_vars

C1_Witness ==
    /\ cfg.budget.bounded /\ cfg.budget.total = MaxTotal
    /\ Len(issued) = MaxTotal
    /\ ~stop_event
    /\ AllExited

\* C2: the i-th pair handed out has port min_port + (i-1) mod (range size), lies in
\* the range, and is a warmup pair exactly when i <= warmup; a bounded run that
\* ends without the stop signal has handed out exactly `total` pairs.
C2_PickerSequence ==
    /\ port_picker.next_port \in cfg.min_port..cfg.max_port
    /\ \A i \in 1..Len(issued) :
          /\ issued[i].port = cfg.min_port + ((i - 1) % RangeSize)
          /\ issued[i].port \in cfg.min_port..cfg.max_port
          /\ issued[i].is_warmup = (i <= cfg.warmup)
    /\ cfg.budget.bounded => Len(issued) <= cfg.budget.total
    /\ (cfg.budget.bounded /\ AllExited /\ ~stop_event) => Len(issued) = cfg.budget.total

C2_Witness ==
    /\ cfg.min_port < cfg.max_port
    /\ cfg.warmup = 1
    /\ ~cfg.budget.bounded
    /\ Len(issued) = RangeSize + 1
    /\ issued[Len(issued)].port = cfg.min_port
    /\ ~issued[Len(issued)].is_warmup

\* the picker after n calls of next() made one after the other
RECURSIVE PickerAfter(_)
PickerAfter(n) == IF n = 0 THEN PingPortPicker(cfg) ELSE PickerNext(PickerAfter(n - 1)).picker

\* C3: under every interleaving the shared picker has advanced exactly once per
\* pair received, the i-th pair received is the i-th pair of the sequential
\* picker sequence, and every position is held by exactly one worker.
C3_SerializedPrefix ==
    /\ port_picker = PickerAfter(Len(issued))
    /\ \A i \in 1..Len(issued) :
          LET r == PickerNext(PickerAfter(i - 1)).ret IN
             r.some /\ issued[i] = [port |-> r.port, is_warmup |-> r.is_warmup]
    /\ \A w \in Workers : cur[w].idx # 0 =>
          /\ cur[w].idx <= Len(issued)
          /\ issued[cur[w].idx] = [port |-> cur[w].port, is_warmup |-> cur[w].is_warmup]
          /\ \A v \in Workers \ {w} : cur[v].idx # cur[w].idx

C3_Witness ==
    /\ Len(issued) >= 3
    /\ \E w, v \in Workers : w # v /\ InFlight(w) /\ InFlight(v) /\ cur[w].idx > cur[v].idx + 1

C5_StopEndsLoopAtWait ==
    [][ \A w \in Workers :
          /\ (stop_event /\ pc[w] = "wait" /\ pc'[w] # "wait")
                => (pc'[w] = "exited" /\ port_picker' = port_picker /\ issued' = issued)
          /\ (pc[w] \in {"ping", "drain", "process"}) => pc'[w] # "exited"
          /\ (pc[w] = "process" /\ pc'[w] # "process" /\ ~IsDropped(res[w]))
                => (pc'[w] = "wait" /\ sent' = sent + 1)
          /\ after_stop'[w] <= 1 ]_vars

C5_Witness ==
    \E w, v \in Workers :
        /\ stop_event
        /\ pc[w] = "exited" /\ after_stop[w] = 1
        /\ pc[v] = "exited" /\ after_stop[v] = 0 /\ cur[v].idx # 0
        /\ sent >= 2

\* C6 as stated: once the stop signal is set, every worker eventually exits.
C6_StopLeadsToExit == stop_event ~> AllExited

\* no task is waiting on the stop event
NoWaiter ==
    /\ \A w \in Workers : pc[w] # "wait"
    /\ srv_pc \notin {"select", "retain"}
    /\ \A c \in ConnIds : conn_pc[c] # "select"

C8_NoneEndsWorker ==
    /\ [][ \A w \in Workers :
             (pc[w] = "acquire" /\ PickerExhausted /\ pc'[w] # "acquire")
                => (pc'[w] = "exited" /\ issued' = issued /\ sent' = sent) ]_vars
    /\ []((~cfg.budget.bounded /\ \E w \in Workers : pc[w] = "exited") => stop_event)
    /\ <>(~cfg.budget.bounded \/ stop_event \/ AllExited)

\* C9 as stated: the probe is dropped (nothing sent) exactly when the bind failed
\* with AddrInUse; every other outcome sends exactly one result.
C9_OnlyBindAddrInUseDropped ==
    [][ \A w \in Workers :
          (pc[w] = "process" /\ pc'[w] # "process")
             => IF res[w].stage = "prepare" /\ res[w].kind = "AddrInUse"
                THEN sent' = sent /\ chan' = chan
                ELSE sent' = sent + 1 /\ Len(chan') = Len(chan) + 1 ]_vars

\* C10 as stated: a bounded run that ends without the stop signal has emitted
\* exactly `total` results.
C10_BudgetCountsResults ==
    (cfg.budget.bounded /\ ~stop_event /\ AllExited) => sent = cfg.budget.total

\* probes attempted whose result is neither sent nor dropped yet
InFlightCount == Cardinality({w \in Workers : pc[w] \in {"ping", "drain", "process"}})

\* C11 as stated: the results emitted never exceed the probes attempted, and the
\* difference is the number of probes that ended in AddrInUse on bind plus the
\* probes in flight: the difference without the probes in flight starts at 0 and
\* grows, by one, exactly in the step that ends a probe whose bind failed with
\* AddrInUse.
C11_EmittedVsAttempted ==
    /\ [](sent <= Len(issued))
    /\ (Len(issued) - sent - InFlightCount = 0)
    /\ [][ (Len(issued') - sent' - InFlightCount') - (Len(issued) - sent - InFlightCount)
              = IF \E w \in Workers : /\ pc[w] = "process" /\ pc'[w] # "process"
                                      /\ res[w] = PreparationFailed("AddrInUse")
                THEN 1 ELSE 0 ]_vars


\* the results with is_warmup = true among those processor p got
WarmupSeen(p) == Cardinality({i \in 1..Len(chain_log[p]) : chain_log[p][i].is_warmup})

\* C12 as stated: at the end of a run every processor has got min(warmup, number
\* of results emitted) results with is_warmup = true.
C12_WarmupResultsCount ==
    chain_pc = "finished" =>
        \A p \in Processors :
            WarmupSeen(p) = IF cfg.warmup <= sent THEN cfg.warmup ELSE sent

\* the results sent that processor p has got or has still to get, oldest first:
\* its log, the result the chain is passing along, the queue of the channel
Stream(p) ==
    chain_log[p]
      \o (IF chain_pc = "process" /\ chain_i <= p THEN <<chain_cur>> ELSE <<>>)
      \o chan

\* C13: every result sent is passed to process() of every processor exactly
\* once and in arrival order (the stream of a processor only grows, at its end, by
\* the result a worker sends; all processors have the same stream; what a
\* processor got is a prefix of it as long as the number of results sent); done()
\* is called at most once on a processor, only after the channel is closed and
\* empty and every result was processed, exactly once when the chain has
\* finished, and no process() call follows it.
C13_ProcessEachOnceThenDone ==
    /\ [](\A p \in Processors :
            /\ Len(Stream(p)) = sent
            /\ \A q \in Processors : Stream(p) = Stream(q)
            /\ chain_done[p] <= 1
            /\ chain_done[p] = 1 =>
                  /\ chan = <<>> /\ ~SenderOpen
                  /\ \A q \in Processors : Len(chain_log[q]) = sent
            /\ chain_pc = "finished" => chain_done[p] = 1)
    /\ [][ \A p \in Processors :
            /\ \/ Stream(p)' = Stream(p)
               \/ \E w \in Workers : /\ pc[w] = "process"
                                     /\ Stream(p)' = Append(Stream(p), PingResultNew(w))
            /\ \/ chain_log'[p] = chain_log[p]
               \/ /\ chain_log'[p] = Append(chain_log[p], chain_cur)
                  /\ chain_done[p] = 0 ]_vars

C13_Witness ==
    /\ chain_pc = "finished"
    /\ sent = 2
    /\ \A p \in Processors :
          /\ chain_done[p] = 1
          /\ Len(chain_log[p]) = 2
          /\ chain_log[p][1].worker_id # chain_log[p][2].worker_id
          /\ chain_log[p][1].stage # chain_log[p][2].stage

\* C14: the scheduler closes its sender end only after every worker has exited;
\* the processor chain sees end-of-stream only when every worker has exited, the
\* channel is empty and every result sent was delivered to every processor; and
\* no result is sent after the chain saw end-of-stream.
C14_CloseAfterAllWorkersExit ==
    /\ [](~result_sender => \A w \in Workers : pc[w] = "exited")
    /\ [](chain_pc \in {"done", "finished"} =>
            /\ \A w \in Workers : pc[w] = "exited"
            /\ chan = <<>>
            /\ \A p \in Processors : Len(chain_log[p]) = sent)
    /\ [][sent' # sent => (SenderOpen /\ chain_pc \notin {"done", "finished"})]_vars

C14_Witness ==
    /\ chain_pc = "done"
    /\ ~result_sender
    /\ sent = MaxIssued
    /\ stop_event
    /\ \A p \in Processors : Len(chain_log[p]) = MaxIssued

\* the positions of processor p's stream that hold results of worker w
OfWorker(p, w) == {i \in 1..Len(Stream(p)) : Stream(p)[i].worker_id = w}

\* C15: a worker takes a pair from the picker only at the head of its loop, with
\* no probe of its own in flight; it comes back to the head of the loop only from
\* the inter-probe wait, when the interval elapsed without the stop signal; it
\* enters the wait only from process_ping_client_result, with the result of the
\* probe sent or dropped; and the results of one worker are in every processor's
\* stream in the order the worker produced them (increasing ping_time).
C15_WorkerSerial ==
    /\ [][ \A w \in Workers :
            /\ cur'[w] # cur[w] => (pc[w] = "acquire" /\ pc'[w] = "ping")
            /\ (pc'[w] = "acquire" /\ pc[w] # "acquire") => (pc[w] = "wait" /\ ~stop_event)
            /\ (pc'[w] = "wait" /\ pc[w] # "wait") =>
                  /\ pc[w] = "process"
                  /\ sent' + dropped' = sent + dropped + 1 ]_vars
    /\ [](\A p \in Processors : \A w \in Workers :
            \A i, j \in OfWorker(p, w) :
                i < j => Stream(p)[i].ping_time < Stream(p)[j].ping_time)

\* both results of one worker delivered, and a run where the result of the
\* second probe handed out overtook the result of the first
C15_Witness ==
    \E p \in Processors :
        /\ Len(chain_log[p]) = 3
        /\ chain_log[p][1].worker_id = chain_log[p][3].worker_id
        /\ chain_log[p][2].worker_id # chain_log[p][1].worker_id
        /\ chain_log[p][1].ping_time = 2
        /\ chain_log[p][2].ping_time = 1

\* C16: the queue of the result channel never holds more than its capacity; a
\* worker whose result is not dropped leaves process_ping_client_result only by
\* having the channel accept the result (it is appended while there is room, so
\* none is lost to a full channel); and while the channel is full the worker
\* stays in the send, keeps its pair and takes nothing from the picker.
C16_SendBlocksWhenFull ==
    /\ [](Len(chan) <= ChanCap)
    /\ [][ \A w \in Workers :
            (pc[w] = "process" /\ ~IsDropped(res[w])) =>
               /\ pc'[w] # "process" =>
                     /\ Len(chan) < ChanCap
                     /\ chan' = Append(chan, PingResultNew(w))
                     /\ sent' = sent + 1
                     /\ pc'[w] = "wait"
               /\ Len(chan) = ChanCap =>
                     (pc'[w] = "process" /\ cur'[w] = cur[w] /\ res'[w] = res[w]) ]_vars

\* a worker blocked in the send on a full channel
C16_Witness ==
    \E w \in Workers :
        /\ pc[w] = "process"
        /\ ~IsDropped(res[w])
        /\ Len(chan) = ChanCap
        /\ sent = ChanCap

\* the three outcomes of a PingResult
IsSuccess(r) == ~r.is_timed_out /\ r.stage = "ok"
IsTimeout(r) == r.is_timed_out /\ r.stage = "ok"
IsError(r) == ~r.is_timed_out /\ r.stage \in {"prepare", "connect"}

CallResult(name) ==
    LET made == {i \in 1..Len(tcp.calls) : tcp.calls[i].name = name} IN
       IF made = {} THEN "NotCalled"
       ELSE tcp.calls[CHOOSE i \in made : \A j \in made : j <= i].result

PrepareCallNames == {"Socket::new", "bind", "set_read_timeout", "set_linger", "set_ttl"}

\* the calls of prepare_socket_for_ping that failed
PrepareFailures ==
    {i \in 1..Len(tcp.calls) : tcp.calls[i].name \in PrepareCallNames /\ tcp.calls[i].result # "Ok"}

\* C18: when ping_target has returned, the outcome is that of the first stage that
\* failed: a failed preparation call is the last call made (connect is not
\* attempted) and gives PreparationFailed with its error kind; otherwise connect
\* was attempted after the whole preparation, and a connect timeout gives Ok with
\* is_timed_out and no local address, another connect error gives PingFailed with
\* its kind, a successful connect gives Ok without is_timed_out, with the local
\* address if it could be read, and with a warning exactly when the disconnect
\* check (made only with check_disconnect) failed.
C18_FirstFailingStageDecides ==
    tcp.pc = "returned" =>
        LET conn == CallResult("connect_timeout") IN
        /\ PrepareFailures # {} =>
              /\ PrepareFailures = {Len(tcp.calls)}
              /\ tcp.ret = PreparationFailed(tcp.calls[Len(tcp.calls)].result)
              /\ conn = "NotCalled"
        /\ PrepareFailures = {} =>
              /\ conn # "NotCalled"
              /\ \A i \in 1..Len(PrepareCalls(tcp)) :
                    tcp.calls[i] = [name |-> PrepareCalls(tcp)[i], result |-> "Ok"]
              /\ tcp.calls[Len(PrepareCalls(tcp)) + 1].name = "connect_timeout"
        /\ conn = "TimedOut" =>
              /\ tcp.ret = PingTimedOut
              /\ tcp.ret.stage = "ok" /\ tcp.ret.is_timed_out
              /\ ~tcp.actual_local_addr
              /\ tcp.calls[Len(tcp.calls)].name = "connect_timeout"
        /\ conn \notin {"NotCalled", "Ok", "TimedOut"} =>
              /\ tcp.ret = PingFailed(conn)
              /\ tcp.calls[Len(tcp.calls)].name = "connect_timeout"
        /\ conn = "Ok" =>
              /\ tcp.ret.stage = "ok" /\ ~tcp.ret.is_timed_out
              /\ tcp.actual_local_addr = LocalAddrOk(tcp)
              /\ tcp.ret.warning =
                    (CallResult("shutdown") = "Err" \/ CallResult("recv") = "Err")
              /\ ~tcp.check_disconnect =>
                    (CallResult("shutdown") = "NotCalled" /\ CallResult("recv") = "NotCalled")

\* a probe with a failed disconnect check: Ok, with a warning and the local address
C18_Witness ==
    /\ tcp.pc = "returned"
    /\ tcp.check_disconnect
    /\ CallResult("recv") = "Err"
    /\ tcp.ret = PingOkFrom(TRUE, TRUE)
    /\ tcp.actual_local_addr

\* the sum of the hit counts of the latency buckets
RECURSIVE SumSeq(_)
SumSeq(q) == IF q = <<>> THEN 0 ELSE Head(q) + SumSeq(Tail(q))

\* the results handed to the logger so far are results a worker can emit
OnlyEmittable ==
    \A i \in 1..Len(logger_calls) :
        LET r == logger_calls[i] IN
           IsSuccess(r) \/ IsTimeout(r) \/ (IsError(r) /\ r.kind # "TimedOut")

\* the three results of the aggregator scenario: 10 ms success, 1000 ms timeout
\* as a worker emits it, connect refused
ScenarioResults ==
    << LoggerResult(from_millis(10), FALSE, "ok", "None", FALSE),
       LoggerResult(from_millis(1000), TRUE, "ok", "None", FALSE),
       LoggerResult(0, FALSE, "connect", "ConnectionRefused", FALSE) >>

\* C19 as stated: of the results emitted by workers, every timeout (is_timed_out,
\* no error) is counted in timed_out and in no latency bucket and every error in
\* failed; for the three results of the scenario and the separators 0.1, 0.5, 1,
\* 10, 50, 100 ms the tallies are total = 3, timed_out = 1, failed = 1 and one
\* hit in the bucket below 50 ms.
C19_TimeoutCountedAsTimedOut ==
    /\ OnlyEmittable =>
          /\ logger.timed_out_hit_count
                = Cardinality({i \in 1..Len(logger_calls) : IsTimeout(logger_calls[i])})
          /\ logger.failed_hit_count
                = Cardinality({i \in 1..Len(logger_calls) : IsError(logger_calls[i])})
          /\ SumSeq(logger.bucket_hit_counts)
                = Cardinality({i \in 1..Len(logger_calls) : IsSuccess(logger_calls[i])})
    /\ (logger.buckets_in_us = LatencyBucketLoggerNew(TestBuckets).buckets_in_us
          /\ logger_calls = ScenarioResults) =>
          /\ logger.total_hit_count = 3
          /\ logger.timed_out_hit_count = 1
          /\ logger.failed_hit_count = 1
          /\ logger.bucket_hit_counts = <<0, 0, 0, 0, 1, 0, 0>>

\* the result handed to the logger by the step
LastCall == logger_calls'[Len(logger_calls')]

\* C20: a process() call with a result without error adds one to exactly one
\* bucket, the first whose upper bound in microseconds is greater than the round
\* trip time in microseconds, and to total, and changes nothing else; a round
\* trip time equal to the i-th separator hits bucket i + 1, and one at or above
\* the last separator hits the last bucket.
C20_FirstBucketAbove ==
    [][ (logger_calls' # logger_calls /\ LastCall.stage = "ok") =>
          LET us == as_micros(LastCall.round_trip_time)
              n == Len(logger.buckets_in_us)
              above == {i \in 1..n : logger.buckets_in_us[i] > us}
              hit == CHOOSE i \in above : \A j \in above : i <= j
          IN /\ above # {}
             /\ logger'.bucket_hit_counts =
                   [i \in 1..n |-> logger.bucket_hit_counts[i] + (IF i = hit THEN 1 ELSE 0)]
             /\ logger' = [logger EXCEPT !.bucket_hit_counts = logger'.bucket_hit_counts,
                                         !.total_hit_count = @ + 1]
             /\ \A i \in 1..(n - 1) : us = logger.buckets_in_us[i] => hit = i + 1
             /\ (n > 1 /\ us >= logger.buckets_in_us[n - 1]) => hit = n ]_vars

\* a round trip time of 0.1 ms, equal to the first separator, counted in the
\* second bucket, and one of 1000 ms in the last
C20_Witness ==
    /\ logger.buckets_in_us = <<100, 500, U128_MAX>>
    /\ Len(logger_calls) = 2
    /\ logger_calls[1].stage = "ok" /\ logger_calls[1].round_trip_time = 1000
    /\ logger_calls[2].stage = "ok" /\ logger_calls[2].round_trip_time = from_millis(1000)
    /\ logger.bucket_hit_counts = <<0, 1, 1>>

\* C21 as stated: a process() call with a warmup result changes none of the
\* tallies of the latency bucket logger (total, timed out, failed, buckets).
C21_WarmupNotTallied ==
    [][ (logger_calls' # logger_calls /\ LastCall.is_warmup) => logger' = logger ]_vars

\* the lines format_ping_result_as_log_should_work expects for the test samples
ExpectedConsoleLines ==
    << "Reaching TCP 1.2.3.4:443 from 5.6.7.8:8080 (warmup) succeeded: RTT=10.00ms",
       "Reaching TCP 1.2.3.4:443 from 5.6.7.8:8080 failed: Timed out, RTT = 1000.00ms",
       "Reaching TCP 1.2.3.4:443 from 5.6.7.8:8080 failed: connect failed",
       "Unable to perform ping to TCP 1.2.3.4:443 from 5.6.7.8:8080, because failing to prepare local socket: Error = address in use" >>

\* C22: the console formatter returns one line whose form is chosen by the
\* outcome, in this order: the timed out line when is_timed_out, else the
\* preparation line when the error is PreparationFailed, else the failure line
\* when it is PingFailed, else the success line; " (warmup)" stands directly
\* after the source address iff is_warmup; the test samples give the test's lines.
C22_ConsoleLineByOutcome ==
    fmt.console # <<>> =>
       LET r == fmt.result
           line == fmt.console
       IN /\ Len(line) \in {9, 10}
          /\ line[6] = AddrText(r.source_ip, r.source_port)
          /\ line[7] = (IF r.is_warmup THEN " (warmup)" ELSE "")
          /\ IF r.is_timed_out
             THEN /\ line[1] = "Reaching "
                  /\ line[8] = " failed: Timed out, RTT = "
                  /\ SubSeq(line, 9, Len(line)) = <<RttText(r.round_trip_time), "ms">>
             ELSE IF r.error.variant = "PreparationFailed"
             THEN /\ line[1] = "Unable to perform ping to "
                  /\ line[8] = ", because failing to prepare local socket: Error = "
                  /\ SubSeq(line, 9, Len(line)) = <<r.error.msg>>
             ELSE IF r.error.variant = "PingFailed"
             THEN /\ line[1] = "Reaching "
                  /\ line[8] = " failed: "
                  /\ SubSeq(line, 9, Len(line)) = <<r.error.msg>>
             ELSE /\ line[1] = "Reaching "
                  /\ line[8] = " succeeded: RTT="
                  /\ SubSeq(line, 9, Len(line)) = <<RttText(r.round_trip_time), "ms">>
          /\ \A i \in 1..Len(TestSamples) :
                r = TestSamples[i] => Join(line) = ExpectedConsoleLines[i]

\* a warmup result that is timed out and also carries a preparation error has
\* been formatted, and the line is the timed out line
C22_Witness ==
    /\ fmt.console # <<>>
    /\ fmt.result.is_timed_out
    /\ fmt.result.is_warmup
    /\ fmt.result.error.variant = "PreparationFailed"
    /\ fmt.console[8] = " failed: Timed out, RTT = "

\* the text of a JSON object given by its members, and of a CSV record given by
\* its columns
RECURSIVE JsonMembers(_)
JsonMembers(ms) ==
    IF ms = <<>> THEN ""
    ELSE LET m == Head(ms)
         IN "\"" \o m[1] \o "\":" \o (IF m[3] THEN "\"" \o m[2] \o "\"" ELSE m[2])
               \o (IF Len(ms) > 1 THEN "," ELSE "") \o JsonMembers(Tail(ms))
JsonText(ms) == "{" \o JsonMembers(ms) \o "}"
RECURSIVE CsvText(_)
CsvText(cols) ==
    IF cols = <<>> THEN ""
    ELSE Head(cols) \o (IF Len(cols) > 1 THEN "," ELSE "") \o CsvText(Tail(cols))

\* the value of the member of a JSON record with the given key
Member(ms, key) == (CHOOSE i \in 1..Len(ms) : ms[i][1] = key)

\* the records the tests of ping_result.rs expect for the test samples
ExpectedJson ==
    << "{\"utcTime\":\"2021-07-06T09:10:11.012Z\",\"protocol\":\"TCP\",\"workerId\":1,\"targetIP\":\"1.2.3.4\",\"targetPort\":\"443\",\"sourceIP\":\"5.6.7.8\",\"sourcePort\":\"8080\",\"isWarmup\":\"true\",\"roundTripTimeInMs\":10.00,\"isTimedOut\":\"false\",\"error\":\"\",\"isPreparationError\":\"false\"}",
       "{\"utcTime\":\"2021-07-06T09:10:11.012Z\",\"protocol\":\"TCP\",\"workerId\":1,\"targetIP\":\"1.2.3.4\",\"targetPort\":\"443\",\"sourceIP\":\"5.6.7.8\",\"sourcePort\":\"8080\",\"isWarmup\":\"false\",\"roundTripTimeInMs\":1000.00,\"isTimedOut\":\"true\",\"error\":\"\",\"isPreparationError\":\"false\"}",
       "{\"utcTime\":\"2021-07-06T09:10:11.012Z\",\"protocol\":\"TCP\",\"workerId\":1,\"targetIP\":\"1.2.3.4\",\"targetPort\":\"443\",\"sourceIP\":\"5.6.7.8\",\"sourcePort\":\"8080\",\"isWarmup\":\"false\",\"roundTripTimeInMs\":0.00,\"isTimedOut\":\"false\",\"error\":\"ping failed: connect failed\",\"isPreparationError\":\"false\"}",
       "{\"utcTime\":\"2021-07-06T09:10:11.012Z\",\"protocol\":\"TCP\",\"workerId\":1,\"targetIP\":\"1.2.3.4\",\"targetPort\":\"443\",\"sourceIP\":\"5.6.7.8\",\"sourcePort\":\"8080\",\"isWarmup\":\"false\",\"roundTripTimeInMs\":0.00,\"isTimedOut\":\"false\",\"error\":\"preparation failed: address in use\",\"isPreparationError\":\"true\"}" >>
ExpectedCsv ==
    << "2021-07-06T09:10:11.012Z,1,TCP,1.2.3.4,443,5.6.7.8,8080,true,10.00,false,\"\",false",
       "2021-07-06T09:10:11.012Z,1,TCP,1.2.3.4,443,5.6.7.8,8080,false,1000.00,true,\"\",false",
       "2021-07-06T09:10:11.012Z,1,TCP,1.2.3.4,443,5.6.7.8,8080,false,0.00,false,\"ping failed: connect failed\",false",
       "2021-07-06T09:10:11.012Z,1,TCP,1.2.3.4,443,5.6.7.8,8080,false,0.00,false,\"preparation failed: address in use\",true" >>

\* C23: the isPreparationError member of the JSON record and the last column of
\* the CSV record say "true" iff the error is PreparationFailed, and the error
\* member / column is empty iff the result has no error, so it is empty for a
\* timed out result without error; the test samples give the test's records.
C23_PreparationErrorField ==
    LET r == fmt.result
        prep == BoolText(r.error.variant = "PreparationFailed")
    IN /\ fmt.json # <<>> =>
             /\ Len(fmt.json) = 12
             /\ fmt.json[Member(fmt.json, "isPreparationError")][2] = prep
             /\ (fmt.json[Member(fmt.json, "error")][2] = "") <=> (r.error = NoError)
             /\ \A i \in 1..Len(TestSamples) :
                   r = TestSamples[i] => JsonText(fmt.json) = ExpectedJson[i]
       /\ fmt.csv # <<>> =>
             /\ Len(fmt.csv) = 12
             /\ fmt.csv[12] = prep
             /\ (fmt.csv[11] = "\"\"") <=> (r.error = NoError)
             /\ \A i \in 1..Len(TestSamples) :
                   r = TestSamples[i] => CsvText(fmt.csv) = ExpectedCsv[i]

\* a timed out result without error has been formatted both ways: its error
\* field is empty and it is no preparation error
C23_Witness ==
    /\ fmt.json # <<>> /\ fmt.csv # <<>>
    /\ fmt.result.is_timed_out
    /\ fmt.result.error = NoError
    /\ fmt.json[11] = <<"error", "", TRUE>>
    /\ fmt.json[12] = <<"isPreparationError", "false", TRUE>>
    /\ fmt.csv[11] = "\"\"" /\ fmt.csv[12] = "false"

\* C24: the source of an emitted result is the local address the client
\* reported when it reported one, and otherwise (timeout, failure, local address
\* not readable) the configured source IP with the port of the worker's picker
\* pair; is_warmup and worker_id are those of the pair the worker acquired.
C24_SourceOfResult ==
    [][ \A w \in Workers :
          (pc[w] = "process" /\ pc'[w] # "process" /\ ~IsDropped(res[w])) =>
             LET r == chan'[Len(chan')]
                 pair == issued[cur[w].idx]
             IN /\ r.source = [ip |-> IF res[w].actual_local_addr
                                      THEN "local_ip" ELSE "source_ip",
                               port |-> pair.port]
                /\ (res[w].is_timed_out \/ res[w].stage # "ok") => r.source.ip = "source_ip"
                /\ r.is_warmup = pair.is_warmup
                /\ r.worker_id = w ]_vars

\* the channel holds a result with the reported local address and a timeout with
\* the configured source IP
C24_Witness ==
    \E i, j \in 1..Len(chan) :
       /\ chan[i].source.ip = "local_ip" /\ chan[i].stage = "ok" /\ ~chan[i].is_timed_out
       /\ chan[j].source.ip = "source_ip" /\ chan[j].is_timed_out
       /\ chan[j].source.port = chan[j].port

\* C25: a worker that drops a probe because of AddrInUse emits nothing and goes
\* to the inter-probe wait; it leaves the wait for the next acquisition, or exits
\* only when the stop event is set; the acquisition ends the worker only when the
\* picker has no pair left, and a ping starts only with a pair just taken from
\* the shared picker, which advances by that step.
C25_DropThenWaitThenNextPort ==
    [][ \A w \in Workers :
          /\ (pc[w] = "process" /\ IsDropped(res[w]) /\ pc'[w] # "process") =>
                /\ pc'[w] = "wait"
                /\ chan' = chan /\ sent' = sent
                /\ dropped' = dropped + 1
          /\ (pc[w] = "wait" /\ pc'[w] # "wait") =>
                /\ pc'[w] \in {"acquire", "exited"}
                /\ pc'[w] = "exited" => stop_event
          /\ (pc[w] = "acquire" /\ pc'[w] # "acquire") =>
                pc'[w] = IF PickerNext(port_picker).ret.some THEN "ping" ELSE "exited"
          /\ (pc[w] # "ping" /\ pc'[w] = "ping") =>
                /\ pc[w] = "acquire"
                /\ PickerNext(port_picker).ret.some
                /\ port_picker' = PickerNext(port_picker).picker
                /\ cur'[w].idx = Len(issued) + 1
                /\ issued' = Append(issued, [port |-> cur'[w].port,
                                             is_warmup |-> cur'[w].is_warmup]) ]_vars

\* one worker alone has dropped its first probe, waited, and is pinging with the
\* second pair of the picker, on the next port
C25_Witness ==
    \E w \in Workers :
       /\ pc[w] = "ping" /\ cur[w].idx = 2
       /\ \A v \in Workers \ {w} : cur[v].idx = 0
       /\ dropped = 1 /\ sent = 0
       /\ Len(issued) = 2 /\ issued[2].port # issued[1].port

\* C26: after any sequence of process() calls the total is the sum of timed out,
\* failed and all the bucket counts, and unreachable!() was not reached; every
\* call adds one to the total and one to exactly one of the other counters.
C26_TotalIsSumOfTallies ==
    /\ [](logger.created =>
             /\ ~logger.panicked
             /\ logger.total_hit_count = Len(logger_calls)
             /\ logger.total_hit_count =
                   logger.timed_out_hit_count + logger.failed_hit_count
                      + SumSeq(logger.bucket_hit_counts))
    /\ [][ logger_calls' # logger_calls =>
             LET n == Len(logger.bucket_hit_counts)
                 moved == {i \in 1..n : logger'.bucket_hit_counts[i] # logger.bucket_hit_counts[i]}
                 timed_out == logger'.timed_out_hit_count - logger.timed_out_hit_count
                 failed == logger'.failed_hit_count - logger.failed_hit_count
             IN /\ logger'.total_hit_count = logger.total_hit_count + 1
                /\ Len(logger'.bucket_hit_counts) = n
                /\ \A i \in moved : logger'.bucket_hit_counts[i] = logger.bucket_hit_counts[i] + 1
                /\ timed_out \in {0, 1} /\ failed \in {0, 1}
                /\ Cardinality(moved) + timed_out + failed = 1 ]_vars

\* three calls: one counted as timed out, one as failed, one in the last bucket
C26_Witness ==
    /\ logger.created
    /\ logger.total_hit_count = 3
    /\ logger.timed_out_hit_count = 1
    /\ logger.failed_hit_count = 1
    /\ logger.bucket_hit_counts[Len(logger.bucket_hit_counts)] = 1

\* C27 as stated: for every separator list, the empty one included, done()
\* completes and prints one row per bucket (separators + 1), then the Timed Out,
\* Failed and Total rows; the last bucket row is labelled with the last separator.
C27_DoneCompletes ==
    stdout # <<>> =>
       LET n == Len(logger.buckets_in_us)
           rows == SubSeq(stdout, Len(TableHead) + 1, Len(TableHead) + n)
       IN /\ ~DonePanicked(stdout)
          /\ Len(stdout) = Len(TableHead) + n + Len(TableFoot(logger))
          /\ \A i \in 1..n : Len(rows[i]) = 2
                               /\ rows[i][2] = ToString(logger.bucket_hit_counts[i])
          /\ SubSeq(stdout, Len(TableHead) + n + 1, Len(stdout)) = TableFoot(logger)

\* C28 as stated: when the entry of a connection is removed from the stats map,
\* every byte the connection added to bytes_read / bytes_write has been reported
\* (a report clears what it prints, so nothing is left in the counters).
C28_RemovedOnlyAfterReported ==
    [][ \A c \in conn_stats_map \ conn_stats_map' :
           conn_stats[c].bytes_read = 0 /\ conn_stats[c].bytes_write = 0 ]_vars

\* C29 as stated: once the stop event is set, the accept loop of a listening
\* server ends with Ok, and every connection task, spawned before or after the
\* set and whatever its stream does, returns and none is running from then on.
C29_StopEndsServerAndConnections ==
    /\ (stop_event /\ srv_pc \in {"select", "retain"}) ~> (srv_pc = "returned_ok")
    /\ stop_event ~> [](\A c \in ConnIds : conn_pc[c] \notin {"select", "running"})

\* C30: server_started_event is set exactly when the listener has been bound (the
\* server is in or past its accept loop) and is never reset; a connection is
\* accepted only with the event set; when bind fails, run has returned an error,
\* the event is not set and no connection was accepted.
C30_StartedIffBound ==
    /\ [](server_started_event <=> srv_pc \in {"select", "retain", "returned_ok"})
    /\ []((next_conn_id > 0 \/ conn_stats_map # {}) => server_started_event)
    /\ [](srv_pc = "returned_err" => (~server_started_event /\ next_conn_id = 0))
    /\ [][server_started_event => server_started_event']_vars
    /\ [][next_conn_id' # next_conn_id => server_started_event]_vars

\* the server is listening, has set the event and has accepted a connection
C30_Witness ==
    /\ server_started_event
    /\ srv_pc = "select"
    /\ next_conn_id = 1
    /\ conn_pc[0] = "running"

TypeOK ==
    /\ cfg \in Configs
    /\ stop_event \in BOOLEAN
    /\ pc \in [Workers -> {"unspawned", "acquire", "ping", "drain", "process", "wait", "exited"}]
    /\ Len(chan) <= ChanCap
====
